---- MODULE Spec2Model ----
(***************************************************************************)
(* A model of the crane Wordle solver: the feedback mask                   *)
(* (Correctness::compute), the consistency filter (Guess::matches), the    *)
(* game loop (Wordle::play) and the reference strategy (Naive::guess).     *)
(*                                                                         *)
(* Letters are the numbers 1..n: the code compares letters for equality    *)
(* only.  Positions are 1..WordLen (the code's 0..4 shifted by one).       *)
(***************************************************************************)
EXTENDS Integers, Sequences, FiniteSets, TLC

\* ------------------------------------------------------------------------
\* Program constants
\* ------------------------------------------------------------------------

\* Every word is exactly five letters (assert_eq!(.., 5)).
WordLen == 5

\* The game loop runs turns 1..=32.
MaxTurns == 32

\* ------------------------------------------------------------------------
\* Bounds of the model
\* ------------------------------------------------------------------------

\* Size of the alphabet for answer/guess pairs scored by compute.
NumLetters == 3

\* Size of the alphabet where the mask is arbitrary (not produced by compute).
MaskLetters == 2

\* Size of the alphabet of the games.
GameLetters == 2

Pos == 1..WordLen

WordsOver(n) == [Pos -> 1..n]

\* enum Correctness
Correctness == {"Correct", "Misplaced", "Wrong"}

Masks == [Pos -> Correctness]

\* ------------------------------------------------------------------------
\* Correctness::compute
\* ------------------------------------------------------------------------

\* First loop: mark letters green.
Greens(ans, g) == [i \in Pos |-> IF ans[i] = g[i] THEN "Correct" ELSE "Wrong"]

\* GreenUsed without `used[i] = true`: the greens leave the answer unused.
GreenUsedNever(c) == [i \in Pos |-> FALSE]

\* `used` after the second loop: the answer positions taken by a green.
GreenUsed(c) == [i \in Pos |-> c[i] = "Correct"]

\* FirstFree without the `!used[i]` test: an answer letter is matched again.
RECURSIVE FirstFreeIgnoringUsed(_, _, _, _)
FirstFreeIgnoringUsed(ans, gl, used, k) ==
    IF k > WordLen THEN 0
    ELSE IF ans[k] = gl THEN k
    ELSE FirstFreeIgnoringUsed(ans, gl, used, k + 1)

\* The closure given to `any` in compute: the first answer position, from k on,
\* that holds letter gl and is not used; 0 when there is none.
RECURSIVE FirstFree(_, _, _, _)
FirstFree(ans, gl, used, k) ==
    IF k > WordLen THEN 0
    ELSE IF ans[k] = gl /\ ~used[k] THEN k
    ELSE FirstFree(ans, gl, used, k + 1)

\* Yellows without the `continue` on a Correct position: a green whose letter
\* is free elsewhere in the answer turns yellow.
RECURSIVE YellowsOverGreens(_, _, _, _, _)
YellowsOverGreens(ans, g, c, used, i) ==
    IF i > WordLen THEN c
    ELSE LET k == FirstFree(ans, g[i], used, 1)
         IN  IF k = 0
             THEN YellowsOverGreens(ans, g, c, used, i + 1)
             ELSE YellowsOverGreens(ans, g, [c EXCEPT ![i] = "Misplaced"],
                                    [used EXCEPT ![k] = TRUE], i + 1)

\* Third loop: mark letters yellow, guess positions i..WordLen in order.
RECURSIVE Yellows(_, _, _, _, _)
Yellows(ans, g, c, used, i) ==
    IF i > WordLen THEN c
    ELSE IF c[i] = "Correct" THEN Yellows(ans, g, c, used, i + 1)
    ELSE LET k == FirstFree(ans, g[i], used, 1)
         IN  IF k = 0
             THEN Yellows(ans, g, c, used, i + 1)
             ELSE Yellows(ans, g, [c EXCEPT ![i] = "Misplaced"],
                          [used EXCEPT ![k] = TRUE], i + 1)

Compute(ans, g) ==
    LET c == Greens(ans, g)
    IN  Yellows(ans, g, c, GreenUsed(c), 1)

\* ------------------------------------------------------------------------
\* Guess::matches
\* ------------------------------------------------------------------------

\* First loop of matches: a Correct position whose letters differ returns false.
CorrectMismatch(gw, gm, w) == \E i \in Pos : gm[i] = "Correct" /\ gw[i] # w[i]

\* CorrectUsed without `used[i] = true`: no guess position starts out used.
CorrectUsedNever(gm) == [i \in Pos |-> FALSE]

\* `used` after the first loop (no early return): the Correct guess positions.
CorrectUsed(gm) == [i \in Pos |-> gm[i] = "Correct"]

\* Scan whose Wrong arm leaves plausible alone: a Wrong mark rejects nothing.
RECURSIVE ScanWrongIgnored(_, _, _, _, _, _, _, _)
ScanWrongIgnored(gw, gm, wl, i, j, used, plausible, arm) ==
    IF j > WordLen
    THEN [found |-> FALSE, used |-> used, plausible |-> plausible, arm |-> arm]
    ELSE IF gw[j] # wl THEN ScanWrongIgnored(gw, gm, wl, i, j + 1, used, plausible, arm)
    ELSE IF used[j] THEN ScanWrongIgnored(gw, gm, wl, i, j + 1, used, plausible, arm)
    ELSE IF gm[j] = "Correct"
    THEN [found |-> FALSE, used |-> used, plausible |-> FALSE, arm |-> "unreachable"]
    ELSE IF gm[j] = "Misplaced" /\ j = i
    THEN ScanWrongIgnored(gw, gm, wl, i, j + 1, used, FALSE,
                          IF arm = "none" THEN "same" ELSE arm)
    ELSE IF gm[j] = "Misplaced"
    THEN [found |-> TRUE, used |-> [used EXCEPT ![j] = TRUE],
          plausible |-> plausible, arm |-> arm]
    ELSE ScanWrongIgnored(gw, gm, wl, i, j + 1, used, plausible, arm)

\* Scan without the `Misplaced if j == i` arm: the same position is consumed
\* like any other Misplaced one.
RECURSIVE ScanSameIgnored(_, _, _, _, _, _, _, _)
ScanSameIgnored(gw, gm, wl, i, j, used, plausible, arm) ==
    IF j > WordLen
    THEN [found |-> FALSE, used |-> used, plausible |-> plausible, arm |-> arm]
    ELSE IF gw[j] # wl THEN ScanSameIgnored(gw, gm, wl, i, j + 1, used, plausible, arm)
    ELSE IF used[j] THEN ScanSameIgnored(gw, gm, wl, i, j + 1, used, plausible, arm)
    ELSE IF gm[j] = "Correct"
    THEN [found |-> FALSE, used |-> used, plausible |-> FALSE, arm |-> "unreachable"]
    ELSE IF gm[j] = "Misplaced"
    THEN [found |-> TRUE, used |-> [used EXCEPT ![j] = TRUE],
          plausible |-> plausible, arm |-> arm]
    ELSE ScanSameIgnored(gw, gm, wl, i, j + 1, used, FALSE,
                         IF arm = "none" THEN "wrong" ELSE arm)

\* The closure given to `any` in matches, for candidate position i with letter
\* wl, scanning guess positions j..WordLen.  Yields found (what `any` returns),
\* the updated used, plausible, and arm: the match arm that first cleared
\* plausible ("none" while it is still true).
RECURSIVE Scan(_, _, _, _, _, _, _, _)
Scan(gw, gm, wl, i, j, used, plausible, arm) ==
    IF j > WordLen
    THEN [found |-> FALSE, used |-> used, plausible |-> plausible, arm |-> arm]
    ELSE IF gw[j] # wl THEN Scan(gw, gm, wl, i, j + 1, used, plausible, arm)
    ELSE IF used[j] THEN Scan(gw, gm, wl, i, j + 1, used, plausible, arm)
    ELSE IF gm[j] = "Correct"
    THEN [found |-> FALSE, used |-> used, plausible |-> FALSE, arm |-> "unreachable"]
    ELSE IF gm[j] = "Misplaced" /\ j = i
    THEN Scan(gw, gm, wl, i, j + 1, used, FALSE,
              IF arm = "none" THEN "same" ELSE arm)
    ELSE IF gm[j] = "Misplaced"
    THEN [found |-> TRUE, used |-> [used EXCEPT ![j] = TRUE],
          plausible |-> plausible, arm |-> arm]
    ELSE Scan(gw, gm, wl, i, j + 1, used, FALSE,
              IF arm = "none" THEN "wrong" ELSE arm)

\* Second loop of matches, candidate positions i..WordLen in order.
\* ret is the value returned; why names the return taken ("pass" for the
\* final true) and at the candidate position whose scan rejected (0 if none).
RECURSIVE Plausible(_, _, _, _, _)
Plausible(gw, gm, w, used, i) ==
    IF i > WordLen THEN [ret |-> TRUE, why |-> "pass", at |-> 0]
    ELSE IF gm[i] = "Correct" THEN Plausible(gw, gm, w, used, i + 1)
    ELSE LET s == Scan(gw, gm, w[i], i, 1, used, TRUE, "none")
         IN  IF s.arm = "unreachable"
             THEN [ret |-> FALSE, why |-> "unreachable", at |-> i]
             ELSE IF s.found /\ s.plausible
             THEN Plausible(gw, gm, w, s.used, i + 1)
             ELSE IF ~s.plausible
             THEN [ret |-> FALSE, why |-> s.arm, at |-> i]
             ELSE Plausible(gw, gm, w, s.used, i + 1)

\* Guess::matches with its return site.
MatchesRun(gw, gm, w) ==
    IF CorrectMismatch(gw, gm, w)
    THEN [ret |-> FALSE, why |-> "correct", at |-> 0]
    ELSE Plausible(gw, gm, w, CorrectUsed(gm), 1)

\* Guess { word: gw, mask: gm }.matches(w)
Matches(gw, gm, w) == MatchesRun(gw, gm, w).ret

\* ------------------------------------------------------------------------
\* State
\* ------------------------------------------------------------------------

VARIABLES
    pc,          \* where the run stands
    answer,      \* the hidden answer (play's and compute's `answer`)
    guess,       \* the guess word (the guesser's return value; compute's `guess`)
    mask,        \* the mask of a Guess handed to matches
    cand,        \* the `word` argument of matches
    out,         \* what matches returned
    dictionary,  \* Wordle.dictionary
    guesser,     \* which Guesser plays, with the parameters of the scripted one
    remaining,   \* Naive.remaining (the words; the counts are never read)
    history,     \* play's `history`
    turn,        \* play's loop variable i
    calls,       \* number of calls of guesser.guess so far
    said,        \* the words the guesser returned, in call order
    result       \* what play returned

vars == <<pc, answer, guess, mask, cand, out, dictionary, guesser, remaining,
          history, turn, calls, said, result>>

filterVars == <<mask, cand, out>>
gameVars == <<dictionary, guesser, remaining, history, turn, calls, said, result>>

NoWord == <<>>
NoMask == <<>>
NoOut == [ret |-> FALSE, why |-> "none", at |-> 0]
NoGuesser == [kind |-> "none", n |-> 0, right |-> NoWord, wrong |-> NoWord]
Running == [tag |-> "running", n |-> 0]

NoGame ==
    /\ dictionary = {}
    /\ guesser = NoGuesser
    /\ remaining = {}
    /\ history = <<>>
    /\ turn = 0
    /\ calls = 0
    /\ said = <<>>
    /\ result = Running

\* ------------------------------------------------------------------------
\* Scoring a guess against an answer, then filtering with the result
\* ------------------------------------------------------------------------

InitScore ==
    /\ pc = "start"
    /\ answer \in WordsOver(NumLetters)
    /\ guess \in WordsOver(NumLetters)
    /\ mask = NoMask
    /\ cand = NoWord
    /\ out = NoOut
    /\ NoGame

\* Correctness::compute(answer, guess)
Score ==
    /\ pc = "start"
    /\ mask' = Compute(answer, guess)
    /\ pc' = "scored"
    /\ UNCHANGED <<answer, guess, cand, out>>
    /\ UNCHANGED gameVars

\* Guess::new(guess, mask).matches(w), for w the answer or the guess itself
FilterScored ==
    /\ pc = "scored"
    /\ \E w \in {answer, guess} :
         /\ cand' = w
         /\ out' = MatchesRun(guess, mask, w)
    /\ pc' = "matched"
    /\ UNCHANGED <<answer, guess, mask>>
    /\ UNCHANGED gameVars

NextScore == Score \/ FilterScored

SpecScore == InitScore /\ [][NextScore]_vars

\* ------------------------------------------------------------------------
\* Filtering with an arbitrary Guess (any word, any mask)
\* ------------------------------------------------------------------------

InitMask ==
    /\ pc = "given"
    /\ answer = NoWord
    /\ guess \in WordsOver(MaskLetters)
    /\ mask \in Masks
    /\ cand = NoWord
    /\ out = NoOut
    /\ NoGame

\* Guess::new(guess, mask).matches(w), for any word w
FilterGiven ==
    /\ pc = "given"
    /\ \E w \in WordsOver(MaskLetters) :
         /\ cand' = w
         /\ out' = MatchesRun(guess, mask, w)
    /\ pc' = "filtered"
    /\ UNCHANGED <<answer, guess, mask>>
    /\ UNCHANGED gameVars

NextMask == FilterGiven

SpecMask == InitMask /\ [][NextMask]_vars

\* ------------------------------------------------------------------------
\* The game: Wordle::play with a test guesser or with Naive
\* ------------------------------------------------------------------------

\* The words of the games.
GameWords == WordsOver(GameLetters)

\* DICTIONARY (dictionary.txt is not part of the sources): a synthetic word
\* list, the game words that hold letter 1 an odd number of times.
Dictionary == {w \in GameWords : Cardinality({i \in Pos : w[i] = 1}) % 2 = 1}

\* The words the test guessers and their answers are taken from: the game
\* words that vary in their last two positions only (some of them are in the
\* dictionary, some are not).
PlayWords == {w \in GameWords : \A i \in Pos : i <= WordLen - 2 => w[i] = 1}

\* algorithms::Naive
NaiveGuesser == [kind |-> "naive", n |-> 0, right |-> NoWord, wrong |-> NoWord]

\* The guesser! values of the play tests: `right` when history.len() == n,
\* `wrong` otherwise (genius and oops are the cases right = wrong).
ScriptedGuessers ==
    [kind : {"scripted"}, n : 0..MaxTurns, right : PlayWords, wrong : PlayWords]

\* Wordle::new() and play's first statement, with Naive::new() for Naive.
InitGame ==
    /\ pc = "ask"
    /\ guesser \in {NaiveGuesser} \cup ScriptedGuessers
    /\ answer \in IF guesser.kind = "naive" THEN GameWords ELSE PlayWords
    /\ dictionary = Dictionary
    /\ remaining = IF guesser.kind = "naive" THEN Dictionary ELSE {}
    /\ history = <<>>
    /\ turn = 1
    /\ calls = 0
    /\ said = <<>>
    /\ result = Running
    /\ guess = NoWord
    /\ mask = NoMask
    /\ cand = NoWord
    /\ out = NoOut

\* guesser.guess(&history) of a test guesser
ScriptedGuess ==
    /\ pc = "ask"
    /\ guesser.kind = "scripted"
    /\ guess' = IF Len(history) = guesser.n THEN guesser.right ELSE guesser.wrong
    /\ said' = Append(said, guess')
    /\ calls' = calls + 1
    /\ pc' = "check"
    /\ UNCHANGED <<answer, dictionary, guesser, remaining, history, turn, result>>
    /\ UNCHANGED filterVars

\* Naive::guess: retain the words the last Guess matches, then return the
\* first word the map iterates over (goodness is 0.0 for all, so `best` is
\* never replaced); the iteration order of a HashMap is arbitrary.
\* best.unwrap() panics when nothing remains.
NaiveGuess ==
    /\ pc = "ask"
    /\ guesser.kind = "naive"
    /\ remaining' = IF history # <<>>
                    THEN LET last == history[Len(history)]
                         IN  {w \in remaining : Matches(last.word, last.mask, w)}
                    ELSE remaining
    /\ calls' = calls + 1
    /\ IF remaining' = {}
       THEN /\ pc' = "panic_unwrap"
            /\ UNCHANGED <<guess, said>>
       ELSE /\ \E w \in remaining' : guess' = w
            /\ said' = Append(said, guess')
            /\ pc' = "check"
    /\ UNCHANGED <<answer, dictionary, guesser, history, turn, result>>
    /\ UNCHANGED filterVars

\* IsValid that lets the answer through: the comparison with the answer made
\* before the dictionary check.
IsValidOrAnswer(g) == g \in dictionary \/ g = answer

\* The condition of play's assert!: the guess is a dictionary word.
IsValid(g) == g \in dictionary

\* Pushed at the front: history.insert(0, ..) for history.push(..).
PushedFront(h, e) == <<e>> \o h

\* history.push(e)
Pushed(h, e) == Append(h, e)

\* LastTurn of the range 1..32, with the end excluded.
LastTurnExclusive(i) == i = MaxTurns - 1

\* The `for i in 1..=32` loop has no turn after i.
LastTurn(i) == i = MaxTurns

\* The rest of one iteration of play's loop, after the guesser returned:
\* the assert, the comparison with the answer, the push, and the loop's end.
Play ==
    /\ pc = "check"
    /\ IF ~IsValid(guess)
       THEN /\ pc' = "panic_assert"
            /\ UNCHANGED <<history, turn, result>>
       ELSE IF guess = answer
       THEN /\ result' = [tag |-> "Some", n |-> turn]
            /\ pc' = "done"
            /\ UNCHANGED <<history, turn>>
       ELSE /\ history' = Pushed(history, [word |-> guess, mask |-> Compute(answer, guess)])
            /\ IF LastTurn(turn)
               THEN /\ result' = [tag |-> "None", n |-> 0]
                    /\ pc' = "done"
                    /\ UNCHANGED turn
               ELSE /\ turn' = turn + 1
                    /\ pc' = "ask"
                    /\ UNCHANGED result
    /\ UNCHANGED <<answer, guess, dictionary, guesser, remaining, calls, said>>
    /\ UNCHANGED filterVars

Next == ScriptedGuess \/ NaiveGuess \/ Play

Init == InitGame

Spec == Init /\ [][Next]_vars

\* The games of the play tests: a test guesser plays.
InitTests == InitGame /\ guesser.kind = "scripted"

NextTests == ScriptedGuess \/ Play

\* play is one synchronous call, running from its start to its return or
\* panic: a step that can be taken is taken.
TestSpec == InitTests /\ [][NextTests]_vars /\ WF_vars(NextTests)

\* ------------------------------------------------------------------------
\* Counting letters and marks
\* ------------------------------------------------------------------------

\* Number of occurrences of letter l in word w.
Occurrences(w, l) == Cardinality({i \in Pos : w[i] = l})

\* Number of positions of guess word g holding l whose mark is in marks.
Marked(g, m, l, marks) == Cardinality({i \in Pos : g[i] = l /\ m[i] \in marks})

\* Number of occurrences of l in candidate w at positions not marked Correct.
OpenOccurrences(w, m, l) == Cardinality({i \in Pos : w[i] = l /\ m[i] # "Correct"})

\* Among the positions of g holding l, no Wrong one precedes a Misplaced one.
MisplacedBeforeWrong(g, m, l) ==
    \A j1, j2 \in Pos :
        (j1 < j2 /\ g[j1] = l /\ g[j2] = l /\ m[j1] = "Wrong") => m[j2] # "Misplaced"

\* matches returned false from the Wrong arm, on candidate letter l.
RejectedByWrong(o, w, l) == ~o.ret /\ o.why = "wrong" /\ w[o.at] = l

\* ------------------------------------------------------------------------
\* C1, C5: compute and matches on answer/guess pairs  (SpecScore)
\* ------------------------------------------------------------------------

\* C1: the filter built from any guess scored against the answer accepts the
\* answer: Guess::new(g, compute(a, g)).matches(a) is true.
C1_AnswerPasses ==
    (pc = "matched" /\ cand = answer) => out.ret = TRUE

\* The answer was filtered against a guess that differs from it and whose mask
\* shows all three marks, a letter being both Misplaced and Wrong.
C1_Witness ==
    /\ pc = "matched"
    /\ cand = answer
    /\ guess # answer
    /\ out.ret = TRUE
    /\ \E l \in 1..NumLetters :
         /\ Marked(guess, mask, l, {"Misplaced"}) >= 1
         /\ Marked(guess, mask, l, {"Wrong"}) >= 1
    /\ \E i \in Pos : mask[i] = "Correct"

\* C5: in compute's mask, for every letter l, the guess positions holding l
\* that are Correct, and those that are Correct or Misplaced, number at most
\* the occurrences of l in the answer.
C5_MarksWithinAnswer ==
    pc \in {"scored", "matched"} =>
        \A l \in 1..NumLetters :
            /\ Marked(guess, mask, l, {"Correct"}) <= Occurrences(answer, l)
            /\ Marked(guess, mask, l, {"Correct", "Misplaced"}) <= Occurrences(answer, l)

\* A scored guess holds a letter more often than the answer does, and the
\* marks of that letter (one Correct, one Misplaced among them) use up the
\* answer's occurrences, the rest being Wrong.
C5_Witness ==
    /\ pc = "scored"
    /\ \E l \in 1..NumLetters :
         /\ Occurrences(guess, l) > Occurrences(answer, l)
         /\ Marked(guess, mask, l, {"Correct"}) >= 1
         /\ Marked(guess, mask, l, {"Misplaced"}) >= 1
         /\ Marked(guess, mask, l, {"Correct", "Misplaced"}) = Occurrences(answer, l)

\* ------------------------------------------------------------------------
\* C2, C3, C4: matches on an arbitrary Guess  (SpecMask)
\* ------------------------------------------------------------------------

\* Candidate occurrences of guess[i]'s letter away from position i and from the
\* Correct positions, beyond those the earlier Misplaced marks of that letter
\* consume: none is left for the Misplaced mark at i.
NothingLeftFor(i) ==
    Cardinality({p \in Pos : p # i /\ cand[p] = guess[i] /\ mask[p] # "Correct"})
      <= Cardinality({j \in Pos : j < i /\ guess[j] = guess[i] /\ mask[j] = "Misplaced"})

\* C2: if position i is Misplaced with letter w and the candidate has no
\* occurrence of w left for it elsewhere (in particular no w at all), matches
\* returns false.
C2_MisplacedNeedsLetter ==
    (pc = "filtered" /\ \E i \in Pos : mask[i] = "Misplaced" /\ NothingLeftFor(i))
        => out.ret = FALSE

\* C3: if position i is Misplaced and the candidate holds the guess's letter
\* at i, matches returns false.
C3_MisplacedSamePosition ==
    (pc = "filtered" /\ \E i \in Pos : mask[i] = "Misplaced" /\ cand[i] = guess[i])
        => out.ret = FALSE

\* Letter l has a Wrong mark in the guess, and the candidate holds it at more
\* open positions than the guess has Misplaced marks of it.
Surplus(l) ==
    /\ Marked(guess, mask, l, {"Wrong"}) >= 1
    /\ OpenOccurrences(cand, mask, l) > Marked(guess, mask, l, {"Misplaced"})

\* Letter l has a Wrong mark in the guess, and the candidate's open
\* occurrences of it are covered by the guess's Misplaced marks of it.
Covered(l) ==
    /\ Marked(guess, mask, l, {"Wrong"}) >= 1
    /\ OpenOccurrences(cand, mask, l) <= Marked(guess, mask, l, {"Misplaced"})

\* First half of C4: matches returns false whenever some letter has a surplus.
WrongRejectsSurplus ==
    out.ret = FALSE \/ \A l \in 1..MaskLetters : ~Surplus(l)

\* C4 as claimed, for every mask: a Wrong mark of w rejects a candidate with a
\* surplus occurrence of w, and a candidate whose occurrences of w are covered
\* by the Correct and Misplaced marks is not rejected by the Wrong arm on w.
C4_Original ==
    pc = "filtered" =>
        /\ WrongRejectsSurplus
        /\ \A l \in 1..MaskLetters : RejectedByWrong(out, cand, l) => ~Covered(l)

\* C4 amended: the second half holds for the letters whose Misplaced marks all
\* precede their Wrong marks (the only masks compute produces).
C4_WrongMark ==
    pc = "filtered" =>
        /\ WrongRejectsSurplus
        /\ \A l \in 1..MaskLetters :
              (RejectedByWrong(out, cand, l) /\ MisplacedBeforeWrong(guess, mask, l))
                  => ~Covered(l)

\* A letter is Correct, Misplaced and Wrong in one guess, the candidate holds
\* it at an open position covered by the Misplaced mark, and is accepted.
C4_Witness ==
    /\ pc = "filtered"
    /\ out.ret = TRUE
    /\ \E l \in 1..MaskLetters :
         /\ Marked(guess, mask, l, {"Wrong"}) >= 1
         /\ Marked(guess, mask, l, {"Correct"}) >= 1
         /\ Marked(guess, mask, l, {"Misplaced"}) >= 1
         /\ OpenOccurrences(cand, mask, l) >= 1
         /\ MisplacedBeforeWrong(guess, mask, l)

\* ------------------------------------------------------------------------
\* C6 (TestSpec), C7, C8 (Spec): Wordle::play
\* ------------------------------------------------------------------------

\* The guesser returned a word at every call, each a dictionary word.
OnlyDictionaryWords ==
    /\ pc # "panic_unwrap"
    /\ \A k \in 1..Len(said) : said[k] \in dictionary

\* The guesser's word equalled the answer at some call.
AnswerSaid == \E k \in 1..Len(said) : said[k] = answer

\* The outcome of play in one state: with a guesser that returns dictionary
\* words only, Some(k) exactly when call k is the first to return the answer,
\* after exactly k calls (1 <= k <= 32), and None exactly when none of 32
\* calls returned it, after exactly 32 calls; no other ending, no further call.
C6_PlayResult ==
    OnlyDictionaryWords =>
        /\ pc \in {"ask", "check", "done"}
        /\ calls <= MaxTurns
        /\ pc = "ask" => calls < MaxTurns
        /\ Len(said) = calls
        /\ (pc = "done") = (result.tag \in {"Some", "None"})
        /\ result.tag = "Some" =>
              /\ result.n \in 1..MaxTurns
              /\ calls = result.n
              /\ said[result.n] = answer
              /\ \A j \in 1..(result.n - 1) : said[j] # answer
        /\ result.tag = "None" =>
              /\ calls = MaxTurns
              /\ ~AnswerSaid
        /\ (AnswerSaid /\ pc # "check") => result.tag = "Some"
        /\ (~AnswerSaid /\ calls = MaxTurns /\ pc # "check") => result.tag = "None"

\* C6: with a guesser that returns dictionary words only, play returns Some(k)
\* exactly when call k is the first to return the answer, after exactly k
\* calls, and None exactly when none of 32 calls returned it, after exactly 32
\* calls (the above, in every state); and the loop always terminates: a run in
\* which the guesser keeps returning dictionary words reaches play's return.
C6_PlayReturns == []C6_PlayResult /\ ([]OnlyDictionaryWords => <>(pc = "done"))

\* play returned Some(32): the answer came at the last turn, after 31 wrong
\* dictionary words.
C6_Witness ==
    /\ OnlyDictionaryWords
    /\ pc = "done"
    /\ result = [tag |-> "Some", n |-> MaxTurns]
    /\ Len(history) = MaxTurns - 1

\* C7: a guess that is not in the dictionary aborts play on that turn: play
\* returns neither Some nor None, history gets no entry for it, and the
\* guesser is not called again; also when the word is the answer.
C7_InvalidGuessAborts ==
    /\ \A k \in 1..Len(said) :
          said[k] \notin dictionary =>
              /\ k = Len(said)
              /\ calls = k
              /\ pc \in {"check", "panic_assert"}
              /\ result = Running
              /\ Len(history) = k - 1
    /\ pc = "panic_assert" => (guess \notin dictionary /\ guess = said[Len(said)])

\* play aborted on a guess that is not in the dictionary and equals the
\* answer, on a turn after the first.
C7_Witness ==
    /\ pc = "panic_assert"
    /\ guess = answer
    /\ guess \notin dictionary
    /\ Len(history) >= 1

\* The history holds the first n words the guesser returned, in call order,
\* each with the mask compute gives it, none of them the answer.
HistoryIsFirst(n) ==
    /\ Len(history) = n
    /\ n <= Len(said)
    /\ \A j \in 1..n :
          /\ history[j].word = said[j]
          /\ history[j].mask = Compute(answer, said[j])
          /\ history[j].word # answer

\* C8 in one state: the history handed to call k has k - 1 entries, the words
\* of calls 1..k-1 in order with their masks.
HistoryAtCall ==
    /\ pc = "ask" => HistoryIsFirst(calls)
    /\ pc = "check" => (calls \in 1..MaxTurns /\ HistoryIsFirst(calls - 1))

\* C8 from one call to the next: the entries so far stay as they are.
HistoryKept ==
    /\ Len(history') >= Len(history)
    /\ \A j \in 1..Len(history) : history'[j] = history[j]

\* C8: at call k (1..32) the history has exactly k-1 entries, the guesser's
\* previous words in turn order, each with mask compute(answer, word), none the
\* answer, and the entries of earlier calls are unchanged.
C8_History == [](pc \in {"ask", "check"} => HistoryAtCall) /\ [][HistoryKept]_vars

\* The 32nd call has returned: it was handed 31 entries, not all the same word.
C8_Witness ==
    /\ pc = "check"
    /\ calls = MaxTurns
    /\ Len(history) = MaxTurns - 1
    /\ \E j \in 1..Len(history) : history[j].word # history[1].word

\* ------------------------------------------------------------------------
\* C9 (Spec), C10 (SpecAll): Naive in play
\* ------------------------------------------------------------------------

\* C9: Naive playing an answer of the dictionary: the answer stays in
\* `remaining`, so unwrap never panics, and the word returned is in
\* `remaining` and in the dictionary, so play's assert never fires.
C9_NaiveKeepsAnswer ==
    (guesser.kind = "naive" /\ answer \in dictionary) =>
        /\ answer \in remaining
        /\ remaining \subseteq dictionary
        /\ pc \notin {"panic_unwrap", "panic_assert"}
        /\ pc = "check" => guess \in remaining

\* Naive has returned its third word against an answer of the dictionary,
\* after its retain removed words on the second and on the third call.
C9_Witness ==
    /\ guesser.kind = "naive"
    /\ answer \in dictionary
    /\ pc = "check"
    /\ calls = 3
    /\ Len(history) = 2
    /\ guess \in remaining
    /\ Cardinality(remaining) < Cardinality(dictionary) - 1

\* No word occurs twice in the sequence s.
NoRepeat(s) == \A j, k \in 1..Len(s) : j # k => s[j] # s[k]

\* C10 in one state: a guess that is not the answer fails its own filter; in a
\* game of Naive the words of the history have left `remaining` by the next
\* call and no word is proposed twice.
RejectsOwnWord ==
    /\ (pc = "matched" /\ cand = guess /\ guess # answer) => out.ret = FALSE
    /\ guesser.kind = "naive" =>
          /\ \A j \in 1..Len(history) :
                ~Matches(history[j].word, history[j].mask, history[j].word)
          /\ pc \in {"check", "done", "panic_unwrap"} =>
                \A j \in 1..Len(history) : history[j].word \notin remaining
          /\ NoRepeat(said)

\* C10 from one call of Naive to the next: `remaining` strictly shrinks on
\* every call after the first.
RemainingShrinks ==
    (guesser.kind = "naive" /\ calls >= 1 /\ calls' = calls + 1) =>
        (remaining' \subseteq remaining /\ remaining' # remaining)

\* C10: for g # a, Guess::new(g, compute(a, g)).matches(g) is false; so in a
\* game of Naive each non-winning guess leaves `remaining` at the next call,
\* `remaining` strictly shrinks on every turn after the first, and no word is
\* proposed twice.
C10_NoRepeat == []RejectsOwnWord /\ [][RemainingShrinks]_vars

\* Naive has been called three times, each call returning another word.
C10_Witness ==
    /\ guesser.kind = "naive"
    /\ pc = "check"
    /\ calls = 3
    /\ Len(history) = 2
    /\ Cardinality(remaining) >= 1

\* Scored pairs and games together: the specification of C10.
InitAll == InitScore \/ InitGame

NextAll == Score \/ FilterScored \/ ScriptedGuess \/ NaiveGuess \/ Play

SpecAll == InitAll /\ [][NextAll]_vars

====
